---- MODULE Spec2Model ----
(***************************************************************************)
(* Model of src/src/dnn-train.cpp: the command-line driver main, the       *)
(* training-loop controller dnn_train and the early-stopping policy        *)
(* isEoutStopDecrease.                                                     *)
(*                                                                         *)
(* Error counts, epochs and indices are size_t in the source.  size_t is   *)
(* modelled as an unsigned integer of SizeBits bits; vectors are TLA+      *)
(* sequences, so the C++ element Eout[k] is Eout[k + 1] here.              *)
(* Accuracies are float in the source; the model keeps them exact          *)
(* (cross-multiplied integers), which agrees with the float comparison     *)
(* for the small counts explored here.                                     *)
(***************************************************************************)
EXTENDS Integers, Sequences, FiniteSets, TLC

(* ------------------------------ bounds -------------------------------- *)
\* width of size_t in the model (the C standard guarantees at least 16)
SizeBits == 16
\* largest --max-epoch explored
MaxEpochBound == 3
\* largest --batch-size explored
MaxBatch == 1
\* largest training-set and validation-set sizes explored
MaxTrain == 1
MaxValid == 1
\* largest patience window Config.nNonIncEpoch explored
MaxPatience == 2
\* minValidAccuracy ranges over k / AccDen, k in 0..AccDen
AccDen == 2
\* longest history handed to the stopping policy on its own
MaxHist == 3
\* largest training set, batch size and epoch cap explored for the batch loop
BatchTotalBound == 5
BatchSizeBound == 3
BatchEpochs == 2

SizeMod == 2 ^ SizeBits

\* unsigned subtraction of two size_t values (wraps modulo 2^SizeBits)
SizeSub(a, b) == (a - b) % SizeMod

\* error counts dnn_predict may report for a set of n rows; n + 1 stands for
\* an inconsistent count larger than the set
Readings(n) == 0 .. (n + 1)

\* contents of the memory an out-of-range vector read may return: a word below
\* every reading and a word above every reading, which give each comparison
\* of the policy both of its outcomes
Garbage == {0, MaxValid + 1}
\* one garbage word per loop offset i of isEoutStopDecrease
GarbageMem == [0 .. (MaxPatience - 1) -> Garbage]

(* --------------------------- isEoutStopDecrease ----------------------- *)
\* Eout[idx] as std::vector::operator[] gives it: the element when idx is in
\* range, otherwise whatever the memory at that address holds (g)
VecAt(Eout, idx, g) == IF idx < Len(Eout) THEN Eout[idx + 1] ELSE g

RECURSIVE EoutLoop(_, _, _, _, _, _)
\* the for loop of isEoutStopDecrease from offset i on; reads is the set of
\* indices at which Eout has been read so far
EoutLoop(Eout, epoch, nNonIncEpoch, i, mem, reads) ==
  IF i >= nNonIncEpoch
    THEN [ret |-> TRUE, reads |-> reads]
    ELSE LET idx == SizeSub(epoch, i) IN
         IF idx > 0
           THEN IF VecAt(Eout, epoch, mem[i]) > VecAt(Eout, idx, mem[i])
                  THEN [ret |-> FALSE, reads |-> reads \cup {epoch, idx}]
                  ELSE EoutLoop(Eout, epoch, nNonIncEpoch, i + 1, mem,
                                reads \cup {epoch, idx})
           ELSE EoutLoop(Eout, epoch, nNonIncEpoch, i + 1, mem, reads)

\* the '>' of the comparison turned into '<'
isEoutStopDecrease_Reversed(Eout, epoch, nNonIncEpoch, mem) ==
  IF \E i \in 0 .. (nNonIncEpoch - 1) :
        /\ SizeSub(epoch, i) > 0
        /\ VecAt(Eout, epoch, mem[i]) < VecAt(Eout, SizeSub(epoch, i), mem[i])
    THEN [ret |-> FALSE, reads |-> {epoch}]
    ELSE [ret |-> TRUE, reads |-> {epoch}]

isEoutStopDecrease(Eout, epoch, nNonIncEpoch, mem) ==
  EoutLoop(Eout, epoch, nNonIncEpoch, 0, mem, {})

(* ------------------------------- state -------------------------------- *)
VARIABLES
  pc,            \* position of the single thread of control
  optionLegal,   \* result of cmd.isOptionLegal()
  config,        \* Config of the DNN: maxEpoch, minValidAccuracy, nNonIncEpoch
  batchSize,     \* --batch-size
  nTrain,        \* train.size()
  nValid,        \* valid.size()
  MAX_EPOCH,     \* local of dnn_train
  epoch,         \* loop counter of dnn_train
  Ein,           \* in-sample error count
  Eout,          \* out-of-sample error counts, one per epoch
  lr,            \* learningRate / batchSize as the pair [num, den]
  itr,           \* offset of the current batch in the training set
  state,         \* INIT, RUNNING, CONVERGED or EXHAUSTED
  nUpdates,      \* number of backPropagate calls so far
  rows,          \* epochs for which a summary row was printed
  skipped,       \* epochs left through the trainAcc < 0 continue
  adjusted,      \* epochs in which adjustLearningRate was called
  policyCalls,   \* epochs in which isEoutStopDecrease was called
  call,          \* the last call of isEoutStopDecrease: arguments and result
  reported,      \* the number printed by "%ld epochs in total", or -1
  nSaved,        \* number of dnn.save calls
  measured,      \* the last evaluation: its epoch and the two counts returned
  log,           \* what dnn_train has done so far, in order, in a traced run
  tracing        \* whether this run is traced

vars == <<pc, optionLegal, config, batchSize, nTrain, nValid, MAX_EPOCH, epoch,
          Ein, Eout, lr, itr, state, nUpdates, rows, skipped, adjusted,
          policyCalls, call, reported, nSaved, measured, log, tracing>>

NoCall == [called |-> FALSE]
NoEvaluation == [epoch |-> -1, Ein |-> 0, Eout |-> 0]

\* one entry of log: what was done (update, Ein, Eout, row, policy, adjust,
\* summary), in which epoch, and up to two values that go with it
Event(ev, e, a, b) == [ev |-> ev, epoch |-> e, a |-> a, b |-> b]

\* log after the entries es have been made
Logged(es) == IF tracing THEN log \o es ELSE log

\* the locals of dnn_train and the ghosts before dnn_train is entered
TrainIdle ==
  /\ MAX_EPOCH = 0 /\ epoch = 0 /\ Ein = 0 /\ Eout = <<>>
  /\ lr = [num |-> 0, den |-> 1] /\ itr = 0 /\ state = "INIT"
  /\ nUpdates = 0 /\ rows = {} /\ skipped = {} /\ adjusted = {}
  /\ policyCalls = {}
  /\ reported = -1 /\ nSaved = 0
  /\ measured = NoEvaluation /\ log = <<>>

\* the state when main starts: the command line has been parsed
Init ==
  /\ pc = "main"
  /\ optionLegal \in BOOLEAN
  /\ config \in [maxEpoch : 0 .. MaxEpochBound,
                 minValidAccuracy : 0 .. AccDen,
                 nNonIncEpoch : 1 .. MaxPatience,
                 learningRate : {1}]
  /\ batchSize \in 0 .. MaxBatch
  /\ nTrain \in 0 .. MaxTrain
  /\ nValid \in 0 .. MaxValid
  /\ tracing = FALSE
  /\ call = NoCall
  /\ TrainIdle

cfgVars == <<optionLegal, config, batchSize, nTrain, nValid, tracing>>
ghostVars == <<rows, skipped, adjusted, policyCalls, call, reported, nSaved>>
logVars == <<measured, log>>

(* -------------------------------- main -------------------------------- *)
\* if (!cmd.isOptionLegal()) cmd.showUsageAndExit();
ShowUsageAndExit ==
  /\ pc = "main"
  /\ ~optionLegal
  /\ pc' = "usage_exit"
  /\ UNCHANGED <<cfgVars, MAX_EPOCH, epoch, Ein, Eout, lr, itr, state, nUpdates,
                 ghostVars, logVars>>

\* the options are read, the model and the data are loaded and split, and
\* dnn_train is called; no value read from the command line is checked
CallTrain ==
  /\ pc = "main"
  /\ optionLegal
  /\ pc' = "dnn_train"
  /\ UNCHANGED <<cfgVars, MAX_EPOCH, epoch, Ein, Eout, lr, itr, state, nUpdates,
                 ghostVars, logVars>>

\* dnn.save(model_out) after dnn_train has returned, then return 0
SaveModel ==
  /\ pc = "returned"
  /\ nSaved' = nSaved + 1
  /\ pc' = "exit"
  /\ UNCHANGED <<cfgVars, MAX_EPOCH, epoch, Ein, Eout, lr, itr, state, nUpdates,
                 rows, skipped, adjusted, policyCalls, call, reported, logVars>>

(* ------------------------------- Batches ------------------------------ *)
\* Batches(batchSize, total): contiguous ranges [offset, offset + batchSize)
\* in ascending order until total is covered, the last one cut at total
BatchesBegin == 0
BatchesAtEnd(offset, total) == ~(offset < total)
BatchesAdvance(offset, size) == offset + size
\* the rows [start, end) of the batch at offset
BatchesRange(offset, size, total) ==
  <<offset, IF offset + size < total THEN offset + size ELSE total>>

(* ------------------------------ dnn_train ----------------------------- *)
\* trainAcc = 1.0f - (float) Ein / nTrain;  trainAcc < 0
\* (with nTrain = 0 the quotient is NaN for Ein = 0 and +inf otherwise)
TrainAccNegative(ein, n) == ein > n

\* validAcc = 1.0f - (float) Eout[epoch] / nValid;  validAcc > minValidAccuracy
\* with minValidAccuracy = minAcc / AccDen (with nValid = 0 validAcc is NaN
\* or -inf and the comparison is false)
ValidAccExceeds(eout, n, minAcc) ==
  /\ n > 0
  /\ (n - eout) * AccDen > minAcc * n

\* the declarations before the loop: Ein = 1, MAX_EPOCH, Eout, lr, epoch = 0
TrainEntry ==
  /\ pc = "dnn_train"
  /\ Ein' = 1
  /\ MAX_EPOCH' = config.maxEpoch
  /\ Eout' = <<>>
  /\ lr' = [num |-> config.learningRate, den |-> batchSize]
  /\ epoch' = 0
  /\ state' = "RUNNING"
  /\ pc' = "loop_test"
  /\ UNCHANGED <<cfgVars, itr, nUpdates, ghostVars, logVars>>

\* Batches is given batchSize = 0, outside its contract (batchSize > 0): what
\* the iteration does then is not determined, and the run is followed no further
BatchesOutOfContract ==
  /\ pc = "loop_test"
  /\ epoch < MAX_EPOCH
  /\ batchSize = 0
  /\ pc' = "unspecified"
  /\ UNCHANGED <<cfgVars, MAX_EPOCH, epoch, Ein, Eout, lr, itr, state, nUpdates,
                 ghostVars, logVars>>

\* the loop test written epoch <= MAX_EPOCH: one epoch too many
BeginEpoch_OffByOne ==
  /\ pc = "loop_test"
  /\ epoch <= MAX_EPOCH
  /\ batchSize > 0
  /\ itr' = BatchesBegin
  /\ pc' = "batches"
  /\ UNCHANGED <<cfgVars, MAX_EPOCH, epoch, Ein, Eout, lr, state, nUpdates,
                 ghostVars, logVars>>

\* epoch < MAX_EPOCH holds: Batches batches(batchSize, nTrain); itr = begin()
BeginEpoch ==
  /\ pc = "loop_test"
  /\ epoch < MAX_EPOCH
  /\ batchSize > 0
  /\ itr' = BatchesBegin
  /\ pc' = "batches"
  /\ UNCHANGED <<cfgVars, MAX_EPOCH, epoch, Ein, Eout, lr, state, nUpdates,
                 ghostVars, logVars>>

\* epoch < MAX_EPOCH fails: the loop ends with the epoch budget used up
LoopExhausted ==
  /\ pc = "loop_test"
  /\ ~(epoch < MAX_EPOCH)
  /\ state' = "EXHAUSTED"
  /\ pc' = "summary"
  /\ UNCHANGED <<cfgVars, MAX_EPOCH, epoch, Ein, Eout, lr, itr, nUpdates,
                 ghostVars, logVars>>

\* Batches built over the validation set's size instead of the training set's
BatchStep_WrongTotal ==
  /\ pc = "batches"
  /\ ~BatchesAtEnd(itr, nTrain)
  /\ nUpdates' = nUpdates + 1
  /\ itr' = BatchesAdvance(itr, batchSize)
  /\ log' = Logged(<<Event("update", epoch, BatchesRange(itr, batchSize, nValid), lr)>>)
  /\ UNCHANGED <<cfgVars, pc, MAX_EPOCH, epoch, Ein, Eout, lr, state, ghostVars,
                 measured>>

\* one pass of the batch loop: feedForward, getError, backPropagate, ++itr
BatchStep ==
  /\ pc = "batches"
  /\ ~BatchesAtEnd(itr, nTrain)
  /\ nUpdates' = nUpdates + 1
  /\ itr' = BatchesAdvance(itr, batchSize)
  /\ log' = Logged(<<Event("update", epoch, BatchesRange(itr, batchSize, nTrain), lr)>>)
  /\ UNCHANGED <<cfgVars, pc, MAX_EPOCH, epoch, Ein, Eout, lr, state, ghostVars,
                 measured>>

\* both counts are pushed onto Eout
Evaluate_AppendsTwice ==
  /\ pc = "batches"
  /\ BatchesAtEnd(itr, nTrain)
  /\ \E ein \in Readings(nTrain), eout \in Readings(nValid) :
        /\ Ein' = ein
        /\ Eout' = Eout \o <<ein, eout>>
        /\ measured' = [epoch |-> epoch, Ein |-> ein, Eout |-> eout]
        /\ log' = Logged(<<Event("Ein", epoch, 0, 0), Event("Eout", epoch, eout, 0)>>)
  /\ pc' = "decide"
  /\ UNCHANGED <<cfgVars, MAX_EPOCH, epoch, lr, itr, state, nUpdates, ghostVars>>

\* Ein = dnn_predict(train); Eout.push_back(dnn_predict(valid))
Evaluate ==
  /\ pc = "batches"
  /\ BatchesAtEnd(itr, nTrain)
  /\ \E ein \in Readings(nTrain), eout \in Readings(nValid) :
        /\ Ein' = ein
        /\ Eout' = Append(Eout, eout)
        /\ measured' = [epoch |-> epoch, Ein |-> ein, Eout |-> eout]
        /\ log' = Logged(<<Event("Ein", epoch, 0, 0), Event("Eout", epoch, eout, 0)>>)
  /\ pc' = "decide"
  /\ UNCHANGED <<cfgVars, MAX_EPOCH, epoch, lr, itr, state, nUpdates, ghostVars>>

\* the continue is missing: the skipped epoch falls through to the row, to
\* the stop check's else branch and to adjustLearningRate
SkipEpoch_FallsThrough ==
  /\ pc = "decide"
  /\ TrainAccNegative(Ein, nTrain)
  /\ skipped' = skipped \cup {epoch}
  /\ rows' = rows \cup {epoch}
  /\ adjusted' = adjusted \cup {epoch}
  /\ epoch' = epoch + 1
  /\ pc' = "loop_test"
  /\ UNCHANGED <<cfgVars, MAX_EPOCH, Ein, Eout, lr, itr, state, nUpdates,
                 policyCalls, call, reported, nSaved, logVars>>

\* if (trainAcc < 0) { cout << "."; continue; }   followed by ++epoch
SkipEpoch ==
  /\ pc = "decide"
  /\ TrainAccNegative(Ein, nTrain)
  /\ skipped' = skipped \cup {epoch}
  /\ epoch' = epoch + 1
  /\ pc' = "loop_test"
  /\ UNCHANGED <<cfgVars, MAX_EPOCH, Ein, Eout, lr, itr, state, nUpdates, rows,
                 adjusted, policyCalls, call, reported, nSaved, logVars>>

\* the record kept of one call of isEoutStopDecrease
CallRecord(r) ==
  [called |-> TRUE, Eout |-> Eout, epoch |-> epoch,
   nNonIncEpoch |-> config.nNonIncEpoch, ret |-> r.ret, reads |-> r.reads]

\* the arguments of the printf of the summary row: nTrain - Ein and
\* nValid - Eout[epoch], both size_t
RowTrainCorrect == SizeSub(nTrain, Ein)
RowValidCorrect == SizeSub(nValid, Eout[epoch + 1])
RowEvent == Event("row", epoch, 0, RowValidCorrect)

\* the entries a stop check adds to log
PolicyEvents(c) ==
  IF c.called THEN <<Event("policy", epoch, c.call.ret, 0)>> ELSE <<>>

\* the && of the stop condition turned into ||
StopCheck_Or(mem) ==
  LET r == isEoutStopDecrease(Eout, epoch, config.nNonIncEpoch, mem)
  IN  IF ValidAccExceeds(Eout[epoch + 1], nValid, config.minValidAccuracy)
        THEN [stop |-> TRUE, called |-> FALSE, call |-> call]
        ELSE [stop |-> r.ret, called |-> TRUE, call |-> CallRecord(r)]

\* validAcc > minValidAccuracy && isEoutStopDecrease(Eout, epoch, nNonIncEpoch):
\* the policy is called only when the left operand holds
StopCheck(mem) ==
  IF ValidAccExceeds(Eout[epoch + 1], nValid, config.minValidAccuracy)
    THEN LET r == isEoutStopDecrease(Eout, epoch, config.nNonIncEpoch, mem)
         IN  [stop |-> r.ret, called |-> TRUE, call |-> CallRecord(r)]
    ELSE [stop |-> FALSE, called |-> FALSE, call |-> call]

\* adjustLearningRate is called before the stop check, so also in the
\* epoch that breaks
Converge_AdjustsFirst ==
  /\ pc = "decide"
  /\ ~TrainAccNegative(Ein, nTrain)
  /\ \E mem \in GarbageMem :
        LET c == StopCheck(mem) IN
        /\ c.stop
        /\ call' = c.call
        /\ log' = Logged(<<RowEvent, Event("adjust", epoch, 0, 0)>> \o PolicyEvents(c))
  /\ rows' = rows \cup {epoch}
  /\ policyCalls' = policyCalls \cup {epoch}
  /\ adjusted' = adjusted \cup {epoch}
  /\ state' = "CONVERGED"
  /\ pc' = "summary"
  /\ UNCHANGED <<cfgVars, MAX_EPOCH, epoch, Ein, Eout, lr, itr, nUpdates, skipped,
                 reported, nSaved, measured>>

\* the summary row is printed, the stop condition holds: break
Converge ==
  /\ pc = "decide"
  /\ ~TrainAccNegative(Ein, nTrain)
  /\ \E mem \in GarbageMem :
        LET c == StopCheck(mem) IN
        /\ c.stop
        /\ call' = c.call
        /\ log' = Logged(<<RowEvent>> \o PolicyEvents(c))
  /\ rows' = rows \cup {epoch}
  /\ policyCalls' = policyCalls \cup {epoch}
  /\ state' = "CONVERGED"
  /\ pc' = "summary"
  /\ UNCHANGED <<cfgVars, MAX_EPOCH, epoch, Ein, Eout, lr, itr, nUpdates, skipped,
                 adjusted, reported, nSaved, measured>>

\* adjustLearningRate is called before the row is printed and the stop
\* condition is tested
AdjustAndContinue_AdjustFirst ==
  /\ pc = "decide"
  /\ ~TrainAccNegative(Ein, nTrain)
  /\ \E mem \in GarbageMem :
        LET c == StopCheck(mem) IN
        /\ ~c.stop
        /\ call' = c.call
        /\ policyCalls' = IF c.called THEN policyCalls \cup {epoch} ELSE policyCalls
        /\ log' = Logged(<<Event("adjust", epoch, 0, 0), RowEvent>> \o PolicyEvents(c))
  /\ rows' = rows \cup {epoch}
  /\ adjusted' = adjusted \cup {epoch}
  /\ epoch' = epoch + 1
  /\ pc' = "loop_test"
  /\ UNCHANGED <<cfgVars, MAX_EPOCH, Ein, Eout, lr, itr, state, nUpdates, skipped,
                 reported, nSaved, measured>>

\* the adjustment also rescales the local lr handed to backPropagate
AdjustAndContinue_RescalesLr ==
  /\ pc = "decide"
  /\ ~TrainAccNegative(Ein, nTrain)
  /\ \E mem \in GarbageMem :
        LET c == StopCheck(mem) IN
        /\ ~c.stop
        /\ call' = c.call
        /\ policyCalls' = IF c.called THEN policyCalls \cup {epoch} ELSE policyCalls
        /\ log' = Logged(<<RowEvent>> \o PolicyEvents(c)
                       \o <<Event("adjust", epoch, 0, 0)>>)
  /\ rows' = rows \cup {epoch}
  /\ adjusted' = adjusted \cup {epoch}
  /\ lr' = [num |-> lr.num, den |-> 2 * lr.den]
  /\ epoch' = epoch + 1
  /\ pc' = "loop_test"
  /\ UNCHANGED <<cfgVars, MAX_EPOCH, Ein, Eout, itr, state, nUpdates, skipped,
                 reported, nSaved, measured>>

\* the summary row is printed, the stop condition fails:
\* dnn.adjustLearningRate(trainAcc), then ++epoch
AdjustAndContinue ==
  /\ pc = "decide"
  /\ ~TrainAccNegative(Ein, nTrain)
  /\ \E mem \in GarbageMem :
        LET c == StopCheck(mem) IN
        /\ ~c.stop
        /\ call' = c.call
        /\ policyCalls' = IF c.called THEN policyCalls \cup {epoch} ELSE policyCalls
        /\ log' = Logged(<<RowEvent>> \o PolicyEvents(c)
                       \o <<Event("adjust", epoch, 0, 0)>>)
  /\ rows' = rows \cup {epoch}
  /\ adjusted' = adjusted \cup {epoch}
  /\ epoch' = epoch + 1
  /\ pc' = "loop_test"
  /\ UNCHANGED <<cfgVars, MAX_EPOCH, Ein, Eout, lr, itr, state, nUpdates, skipped,
                 reported, nSaved, measured>>

\* the out-of-sample summary shows Eout.front() instead of Eout.back()
ShowSummary_Front ==
  /\ pc = "summary"
  /\ reported' = epoch
  /\ \/ /\ pc' = "returned"
        /\ \E g \in Garbage :
              log' = Logged(<<Event("summary", epoch, Ein,
                                       IF Eout = <<>> THEN g ELSE Eout[1])>>)
     \/ /\ Eout = <<>>
        /\ pc' = "crashed"
        /\ log' = log
  /\ UNCHANGED <<cfgVars, MAX_EPOCH, epoch, Ein, Eout, lr, itr, state, nUpdates,
                 rows, skipped, adjusted, policyCalls, call, nSaved, measured>>

\* printf("%ld epochs in total", epoch); showAccuracy(Ein, ...);
\* showAccuracy(Eout.back(), ...).  Eout.back() of an empty vector reads
\* outside any allocation: the read either faults or yields garbage
ShowSummary ==
  /\ pc = "summary"
  /\ reported' = epoch
  /\ \/ /\ pc' = "returned"
        /\ \E g \in Garbage :
              log' = Logged(<<Event("summary", epoch, Ein,
                                       IF Eout = <<>> THEN g ELSE Eout[Len(Eout)])>>)
     \/ /\ Eout = <<>>
        /\ pc' = "crashed"
        /\ log' = log
  /\ UNCHANGED <<cfgVars, MAX_EPOCH, epoch, Ein, Eout, lr, itr, state, nUpdates,
                 rows, skipped, adjusted, policyCalls, call, nSaved, measured>>

Next ==
  \/ ShowUsageAndExit
  \/ CallTrain
  \/ TrainEntry
  \/ BeginEpoch
  \/ BatchesOutOfContract
  \/ LoopExhausted
  \/ BatchStep
  \/ Evaluate
  \/ SkipEpoch
  \/ Converge
  \/ AdjustAndContinue
  \/ ShowSummary
  \/ SaveModel

Spec == Init /\ [][Next]_vars

\* the program is one thread that always takes its next step
FairSpec == Spec /\ WF_vars(Next)

(* ------------------- the stopping policy on its own ------------------- *)
Histories == UNION {[1 .. k -> Readings(MaxValid)] : k \in 1 .. MaxHist}

\* any history, any epoch index of it, any patience window
PolicyInit ==
  /\ pc = "policy"
  /\ optionLegal = TRUE
  /\ config \in [maxEpoch : {MaxEpochBound},
                 minValidAccuracy : {0},
                 nNonIncEpoch : 1 .. MaxPatience,
                 learningRate : {1}]
  /\ batchSize = 1 /\ nTrain = 0 /\ nValid = 0 /\ tracing = FALSE
  /\ MAX_EPOCH = 0 /\ Ein = 0 /\ lr = [num |-> 0, den |-> 1] /\ itr = 0
  /\ state = "INIT" /\ nUpdates = 0 /\ rows = {} /\ skipped = {}
  /\ adjusted = {} /\ policyCalls = {} /\ reported = -1 /\ nSaved = 0
  /\ measured = NoEvaluation /\ log = <<>>
  /\ Eout \in Histories
  /\ epoch \in 0 .. (Len(Eout) - 1)
  /\ call = NoCall

\* isEoutStopDecrease(Eout, epoch, nNonIncEpoch) is called once
PolicyCall ==
  /\ pc = "policy"
  /\ \E mem \in GarbageMem :
        call' = CallRecord(isEoutStopDecrease(Eout, epoch, config.nNonIncEpoch, mem))
  /\ pc' = "policy_done"
  /\ UNCHANGED <<cfgVars, MAX_EPOCH, epoch, Ein, Eout, lr, itr, state, nUpdates,
                 rows, skipped, adjusted, policyCalls, reported, nSaved, logVars>>

PolicyNext == PolicyCall

PolicySpec == PolicyInit /\ [][PolicyNext]_vars

(* ----------------------- the epoch loop on its own -------------------- *)
\* a traced run of dnn_train, entered with a legal batch size and epoch cap, a training
\* set of any size up to BatchTotalBound and two validation rows
BatchInit ==
  /\ pc = "dnn_train"
  /\ optionLegal = TRUE
  /\ config \in [maxEpoch : 1 .. BatchEpochs,
                 minValidAccuracy : {0},
                 nNonIncEpoch : 1 .. 2,
                 learningRate : {1}]
  /\ batchSize \in 1 .. BatchSizeBound
  /\ nTrain \in 0 .. BatchTotalBound
  /\ nValid = 2
  /\ tracing = TRUE
  /\ call = NoCall
  /\ TrainIdle

\* dnn_train up to its return
BatchNext ==
  \/ TrainEntry
  \/ BeginEpoch
  \/ LoopExhausted
  \/ BatchStep
  \/ Evaluate
  \/ SkipEpoch
  \/ Converge
  \/ AdjustAndContinue
  \/ ShowSummary

BatchSpec == BatchInit /\ [][BatchNext]_vars

(* ======================= isEoutStopDecrease (C1-C4) ==================== *)
\* the arguments of the recorded call, with the vector indexed from 0
CallEout(k) == call.Eout[k + 1]

\* C1: isEoutStopDecrease(Eout, epoch, nNonIncEpoch) returns true if and only
\* if Eout[epoch] <= Eout[epoch - i] for every offset i in [0, nNonIncEpoch)
\* with epoch - i > 0 in ordinary integer arithmetic.
C1_PolicyIffWindow ==
  call.called =>
    (call.ret <=>
       \A i \in 0 .. (call.nNonIncEpoch - 1) :
          (call.epoch - i > 0) => CallEout(call.epoch) <= CallEout(call.epoch - i))

\* C2: every index at which isEoutStopDecrease reads the history lies in
\* [0, epoch]: epoch - i never underflows, also when epoch < nNonIncEpoch.
C2_ReadsInRange ==
  call.called => call.reads \subseteq 0 .. call.epoch

NonIncreasing(h) == \A k \in 1 .. (Len(h) - 1) : h[k + 1] <= h[k]

\* C3: on a monotonically non-increasing history isEoutStopDecrease returns
\* true at every epoch index and for every nNonIncEpoch, epoch 0 included.
C3_NonIncreasingTrue ==
  (call.called /\ NonIncreasing(call.Eout)) => call.ret

Compared(j) ==
  /\ j \in 1 .. (call.epoch - 1)
  /\ call.epoch - call.nNonIncEpoch < j

LoopEnded == pc \in {"summary", "returned", "exit", "crashed"}

\* C5: the loop is left early only in an epoch where validAcc is strictly
\* greater than minValidAccuracy and the stopping policy returned true for
\* that epoch, epoch 0 included.
C5_StopOnlyAboveFloor ==
  state = "CONVERGED" =>
    /\ epoch < Len(Eout)
    /\ nValid > 0
    /\ (nValid - Eout[epoch + 1]) * AccDen > config.minValidAccuracy * nValid
    /\ call.called
    /\ call.epoch = epoch
    /\ call.Eout = Eout
    /\ call.ret

\* the run stopped early at an epoch after the first one
C5_Witness ==
  /\ state = "CONVERGED"
  /\ epoch > 0
  /\ 0 \in adjusted

\* what holds of every epoch that was skipped
C6_Skipped(e) ==
  /\ e \notin rows
  /\ e \notin policyCalls
  /\ e \notin adjusted
  /\ ~(state = "CONVERGED" /\ epoch = e)
  /\ epoch > e
  /\ LoopEnded =>
       IF e + 1 < MAX_EPOCH THEN Len(Eout) > e + 1 ELSE state = "EXHAUSTED"

\* the step taken in an epoch whose Ein exceeds the training-set size
C6_SkipStep ==
  (pc = "decide" /\ Ein > nTrain) =>
    /\ skipped' = skipped \cup {epoch}
    /\ rows' = rows
    /\ policyCalls' = policyCalls
    /\ call' = call
    /\ adjusted' = adjusted
    /\ state' = "RUNNING"
    /\ epoch' = epoch + 1
    /\ pc' = "loop_test"

\* C6: in an epoch with Ein > |train| no row is printed, the policy and
\* adjustLearningRate are not called, the loop does not stop, and the next
\* epoch follows (or the run ends EXHAUSTED if it was the last allowed one).
C6_SkippedEpoch ==
  /\ [](\A e \in skipped : C6_Skipped(e))
  /\ [][C6_SkipStep]_vars

\* an epoch was skipped and the following epoch was run
C6_Witness ==
  \E e \in skipped : Len(Eout) > e + 1

\* steps still ahead of the run: a number that every step of the program
\* makes smaller
EpochSteps == nTrain + 4
Remaining ==
  CASE pc = "main"        -> EpochSteps * (config.maxEpoch + 1) + 6
    [] pc = "dnn_train"   -> EpochSteps * (config.maxEpoch + 1) + 5
    [] pc = "loop_test"   -> EpochSteps * (MAX_EPOCH - epoch) + nTrain + 7
    [] pc = "batches"     -> EpochSteps * (MAX_EPOCH - epoch)
                               + (IF itr < nTrain THEN nTrain - itr ELSE 0) + 6
    [] pc = "decide"      -> EpochSteps * (MAX_EPOCH - epoch) + 5
    [] pc = "summary"     -> 3
    [] pc = "returned"    -> 2
    [] OTHER              -> 1

\* the bookkeeping of the loop, in every state of dnn_train
C7_Inv ==
  /\ Len(Eout) <= MAX_EPOCH
  /\ Remaining >= 1
  /\ state = "RUNNING" => pc \in {"loop_test", "batches", "decide", "unspecified"}
  /\ LoopEnded => state \in {"CONVERGED", "EXHAUSTED"}
  /\ state = "EXHAUSTED" => (epoch = MAX_EPOCH /\ Len(Eout) = MAX_EPOCH)
  /\ state = "CONVERGED" => (epoch < MAX_EPOCH /\ Len(Eout) = epoch + 1)
  /\ (batchSize > 0 /\ pc \notin {"exit", "usage_exit", "crashed"}) => ENABLED Next

\* every step brings the end nearer, and after the terminal state nothing
\* of the training changes
C7_Step ==
  /\ Remaining' < Remaining
  /\ state \in {"CONVERGED", "EXHAUSTED"} =>
       /\ state' = state
       /\ UNCHANGED <<nUpdates, Ein, Eout, epoch, adjusted, policyCalls, itr>>

C8_IllegalValuesRejected ==
  (config.maxEpoch = 0 \/ batchSize = 0) => pc \in {"main", "usage_exit"}

\* C9: a run that got past option checking saves the model exactly once,
\* after dnn_train has reached its terminal state, and never earlier.
C9_SavedExactlyOnce ==
  /\ nSaved <= 1
  /\ nSaved = 1 => (pc = "exit" /\ state \in {"CONVERGED", "EXHAUSTED"})
  /\ pc \in {"exit", "crashed"} => nSaved = 1

\* C10: the number printed as the total of epochs is the number of epochs
\* run, the length of the error history.
C10_ReportedEpochs ==
  reported # -1 => reported = Len(Eout)

(* ====================== the epoch loop (C11-C17) ====================== *)
\* the entries of log of one kind made in epoch e, in order
EventsOf(ev, e) == SelectSeq(log, LAMBDA x : x.ev = ev /\ x.epoch = e)
\* the positions of log holding an entry of one kind made in epoch e
Positions(ev, e) == {k \in 1 .. Len(log) : log[k].ev = ev /\ log[k].epoch = e}
\* the epochs whose evaluation has been done
Evaluated == 0 .. (Len(Eout) - 1)

\* the batches trained on in epoch e, as <<start, end>> pairs
TrainedOn(e) ==
  LET updates == EventsOf("update", e)
  IN  [k \in 1 .. Len(updates) |-> updates[k].a]

\* ranges are contiguous from 0, in ascending order, each of size rows or
\* cut at total, and none starts at or after total
PartitionPrefix(ranges, total, size) ==
  \A k \in 1 .. Len(ranges) :
     /\ ranges[k][1] = (IF k = 1 THEN 0 ELSE ranges[k - 1][2])
     /\ ranges[k][1] < total
     /\ ranges[k][2] > ranges[k][1]
     /\ ranges[k][2] <= total
     /\ ranges[k][2] - ranges[k][1] <= size
     /\ (ranges[k][2] - ranges[k][1] < size) => ranges[k][2] = total

\* ranges cover [0, total) completely
Covers(ranges, total) ==
  IF total = 0 THEN ranges = <<>>
  ELSE Len(ranges) > 0 /\ ranges[Len(ranges)][2] = total

\* C11: in every epoch the batches trained on partition [0, nTrain): contiguous
\* half-open ranges in ascending order, all of size batchSize except possibly
\* the last, none when nTrain = 0, and the same sequence in every epoch.
C11_BatchesPartition ==
  LET first == TrainedOn(0)
  IN  \A e \in 0 .. epoch :
         LET ranges == TrainedOn(e)
         IN  /\ PartitionPrefix(ranges, nTrain, batchSize)
             /\ e \in Evaluated => (Covers(ranges, nTrain) /\ ranges = first)

\* a second epoch has trained on three batches, the last of them short
C11_Witness ==
  /\ 1 \in Evaluated
  /\ LET ranges == TrainedOn(1)
     IN  Len(ranges) = 3 /\ ranges[3][2] - ranges[3][1] < batchSize

\* the number of adjustLearningRate calls made in epoch e
AdjustCalls(e) == Cardinality(Positions("adjust", e))
\* the epoch in which the loop was left by break, if any
ConvergingEpochs == IF state = "CONVERGED" THEN {epoch} ELSE {}
\* the epochs whose stop decision has been taken
Decided == (0 .. (epoch - 1)) \cup ConvergingEpochs

\* C12: adjustLearningRate is called exactly once in every epoch that is
\* neither skipped nor the converging one, after that epoch's row and stop
\* check, and never in a skipped or the converging epoch; over a run the calls
\* number the epochs run minus the skipped ones minus one if it converged.
C12_AdjustOncePerEpoch ==
  /\ \A e \in Evaluated :
        IF e \in Decided /\ e \notin skipped /\ e \notin ConvergingEpochs
          THEN /\ AdjustCalls(e) = 1
               /\ \A k \in Positions("adjust", e) :
                     /\ \E r \in Positions("row", e) : r < k
                     /\ \A q \in Positions("policy", e) : q < k
          ELSE AdjustCalls(e) = 0
  /\ LoopEnded =>
       Cardinality({k \in 1 .. Len(log) : log[k].ev = "adjust"})
         = Len(Eout) - Cardinality(skipped) - Cardinality(ConvergingEpochs)

\* a run has converged in its second epoch; in the first the policy was
\* called and the learning rate adjusted
C12_Witness ==
  /\ LoopEnded
  /\ state = "CONVERGED"
  /\ epoch = 1
  /\ Positions("policy", 0) # {}
  /\ AdjustCalls(0) = 1

\* C13: the error history has one entry per evaluated epoch, e entries at
\* the start of epoch e, each appended once and still holding the count that
\* was measured in its epoch.
C13_HistoryAppendOnly ==
  /\ pc \in {"loop_test", "batches"} => Len(Eout) = epoch
  /\ pc = "decide" => Len(Eout) = epoch + 1
  /\ \A e \in Evaluated :
        /\ Len(EventsOf("Eout", e)) = 1
        /\ EventsOf("Eout", e)[1].a = Eout[e + 1]
  /\ \A k \in 1 .. Len(log) : log[k].ev = "Eout" => log[k].epoch \in Evaluated
  /\ call.called => (call.epoch < Len(Eout)
                      /\ SubSeq(Eout, 1, Len(call.Eout)) = call.Eout)

\* two epochs were evaluated with different counts, the first one skipped,
\* and the policy was called in the second
C13_Witness ==
  /\ Len(Eout) = 2
  /\ 0 \in skipped
  /\ call.called
  /\ Eout[1] # Eout[2]

\* the place of each kind of entry within its epoch
Rank(ev) ==
  CASE ev = "update" -> 0
    [] ev = "Ein"    -> 1
    [] ev = "Eout"   -> 2
    [] ev = "row"    -> 3
    [] ev = "policy" -> 4
    [] ev = "adjust" -> 5
    [] OTHER         -> 6

\* entry x comes before entry y in the order of the epoch loop: an earlier
\* epoch, or the same epoch and an earlier place in it (a transitive relation)
InOrder(x, y) ==
  \/ x.epoch < y.epoch
  \/ x.epoch = y.epoch /\ Rank(x.ev) < Rank(y.ev)
  \/ x.epoch = y.epoch /\ x.ev = "update" /\ y.ev = "update"

\* C14: within an epoch all batch updates come first, then the in-sample
\* evaluation, then the out-of-sample evaluation, then the row, the stop
\* decision and the adjustment; nothing of epoch e + 1 precedes anything of
\* epoch e; the stop decision of epoch e reads the count measured in epoch e.
C14_EpochOrder ==
  /\ \A i \in 1 .. (Len(log) - 1) : InOrder(log[i], log[i + 1])
  /\ \A e \in 0 .. epoch :
        LET updates == Positions("update", e)
            evalIn == Positions("Ein", e)
            evalOut == Positions("Eout", e)
            decided == Positions("row", e) \cup Positions("policy", e)
                          \cup Positions("adjust", e)
            before == Positions("Ein", e - 1) \cup Positions("Eout", e - 1)
        IN  /\ e \in Evaluated => (Cardinality(evalIn) = 1 /\ Cardinality(evalOut) = 1)
            /\ \A i \in evalIn : \A u \in updates : u < i
            /\ \A o \in evalOut : \E i \in evalIn : i < o
            /\ \A d \in decided : \E o \in evalOut : o < d
            /\ \A u \in updates : e > 0 => (Cardinality(before) = 2
                                              /\ \A b \in before : b < u)
  /\ (call.called /\ call.epoch \in Evaluated) =>
        call.Eout[call.epoch + 1] = EventsOf("Eout", call.epoch)[1].a

\* the second epoch has trained on a batch after the first epoch's policy
\* call and adjustment
C14_Witness ==
  /\ Positions("update", 1) # {}
  /\ Positions("policy", 0) # {}
  /\ Positions("adjust", 0) # {}
  /\ Positions("Eout", 1) # {}

\* C15: every printed row has a train correct count in [0, |train|] and a
\* valid correct count in [0, |valid|].
C15_RowCountsInRange ==
  /\ (pc = "decide" /\ ~TrainAccNegative(Ein, nTrain)) => RowTrainCorrect \in 0 .. nTrain
  /\ \A k \in 1 .. Len(log) : log[k].ev = "row" => log[k].b \in 0 .. nValid

\* C16: the rate handed to backPropagate is Config.learningRate / batchSize
\* in every batch of every epoch, whatever adjustments and skipped epochs
\* lie between.
C16_RateUnchanged ==
  \A k \in 1 .. Len(log) :
     log[k].ev = "update" =>
        log[k].b = [num |-> config.learningRate, den |-> batchSize]

\* a batch was trained on after an epoch that adjusted the learning rate
C16_Witness ==
  \E k \in 1 .. Len(log) :
     /\ log[k].ev = "update"
     /\ \E e \in 0 .. (log[k].epoch - 1) : AdjustCalls(e) = 1

\* the summary entry of log, if the summary was shown
Summaries == {k \in 1 .. Len(log) : log[k].ev = "summary"}

\* C17: for maxEpoch >= 1 the history is non-empty when the summary is
\* produced, and the two counts shown are those measured in the last epoch
\* run, also when that epoch was skipped.
C17_SummaryOfLastEpoch ==
  config.maxEpoch >= 1 =>
    /\ pc \in {"summary", "returned", "exit"} => Eout # <<>>
    /\ pc # "crashed"
    /\ \A k \in Summaries :
          /\ measured.epoch = Len(Eout) - 1
          /\ log[k].a = measured.Ein
          /\ log[k].b = measured.Eout
          /\ log[k].b = Eout[Len(Eout)]

\* the summary was shown after a run whose last epoch was skipped and whose
\* first and last out-of-sample counts differ
C17_Witness ==
  /\ Summaries # {}
  /\ Len(Eout) >= 2
  /\ (Len(Eout) - 1) \in skipped
  /\ Eout[1] # Eout[Len(Eout)]

====
